---- MODULE Spec2Model ----
(***************************************************************************)
(* Access control, tenant isolation, tenant lifecycle and audit trail of   *)
(* the Fixly admin API (Hono routes over a D1 / SQLite store).             *)
(*                                                                         *)
(* The store is the state: the tenants, users, sessions, payments and      *)
(* orders tables and the audit_logs table.  Every route handler is one     *)
(* action, taken together with the middleware registered in front of it    *)
(* (authMiddleware on /admin/*, then the route's own gate).  resp is the   *)
(* response of the last request: who asked, what was asked, the HTTP       *)
(* status, the error code and the ids of the rows sent back.  inflight     *)
(* holds the requests whose handler has started and not yet answered, for  *)
(* the handlers that are followed statement by statement.                  *)
(*                                                                         *)
(* Of the timestamp columns only audit_logs.created_at is kept: the n-th   *)
(* audit write happens at instant n, so no two audit rows share a          *)
(* timestamp.  trial_ends_at is kept as "null or set".                     *)
(***************************************************************************)
EXTENDS Integers, Sequences, FiniteSets, TLC

VARIABLES tenants, users, sessions, payments, orders, audit, ids, resp, inflight

vars == <<tenants, users, sessions, payments, orders, audit, ids, resp, inflight>>

db == <<tenants, users, sessions, payments, orders>>

(***************************************************************************)
(* Bounds of the model.                                                    *)
(***************************************************************************)
MaxAudit == 2

MaxNewTenants == 1

(***************************************************************************)
(* Values.                                                                 *)
(***************************************************************************)
Null == "null"

Undefined == "undefined"

KnownRoles == {"superadmin", "admin", "operator", "viewer"}

\* role strings outside the permission table
UnknownRoles == {"guest", "owner"}

TenantStatuses == {"trial", "active", "suspended", "cancelled"}

Capabilities ==
  { "tenants:read", "tenants:write", "tenants:delete",
    "users:read", "users:write", "users:delete", "users:invite",
    "payments:read", "payments:refund",
    "operations:read", "operations:export",
    "audit:read", "audit:export",
    "config:read", "config:write",
    "mercadopago:read", "mercadopago:write" }

rolePermissions ==
  [ r \in KnownRoles |->
      CASE r = "superadmin" -> Capabilities
        [] r = "admin" ->
             { "users:read", "users:write", "users:invite",
               "payments:read",
               "operations:read", "operations:export",
               "audit:read",
               "config:read", "config:write",
               "mercadopago:read", "mercadopago:write" }
        [] r = "operator" ->
             { "users:read", "payments:read", "operations:read", "audit:read" }
        [] r = "viewer" ->
             { "users:read", "payments:read", "operations:read" } ]

\* ids the store starts with, and the ids generateId() may hand out
SeedTenantIds == {"t1", "t2"}

NewTenantIds == {"t3", "t4", "t5"}

TenantIds == SeedTenantIds \cup NewTenantIds

UserIds == {"root", "a1", "v2"}

BusinessNames == {"Taller Central", "Taller Norte", "Taller Sur"}

\* slugify(text): lower case, runs of non-alphanumerics become "-"
slugify(text) ==
  CASE text = "Taller Central" -> "taller-central"
    [] text = "Taller Norte" -> "taller-norte"
    [] text = "Taller Sur" -> "taller-sur"
    [] OTHER -> "x"

\* the order in which generateId() hands out the new tenant ids
NewTenantSeq == <<"t3", "t4", "t5">>

NewUserSeq == <<"u3", "u4", "u5">>

NewUserIds == {"u3", "u4", "u5"}

Emails == {"root@fixly", "a1@fixly", "v2@fixly", "new@fixly"}

NoUser == [id |-> Null, role |-> Null, tenant_id |-> Null, active |-> FALSE,
           email |-> Null, password_hash |-> Null]

(***************************************************************************)
(* A freshly seeded store: one superadmin without tenant, an active       *)
(* tenant t1 with an admin, a trial tenant t2 with a viewer, one session   *)
(* per tenant user, one payment and one order per tenant, and an audit     *)
(* log that is still empty.                                                *)
(***************************************************************************)
InitStore ==
  /\ tenants =
       [ t \in SeedTenantIds |->
           IF t = "t1"
           THEN [name |-> "Taller Central", slug |-> "taller-central",
                 status |-> "active", trial_ends_at |-> Null,
                 mercadopago_enabled |-> FALSE, settings |-> "default"]
           ELSE [name |-> "Taller Norte", slug |-> "taller-norte",
                 status |-> "trial", trial_ends_at |-> "set",
                 mercadopago_enabled |-> FALSE, settings |-> "default"] ]
  /\ users =
       [ u \in UserIds |->
           CASE u = "root" ->
                  [id |-> u, role |-> "superadmin", tenant_id |-> Null,
                   active |-> TRUE, email |-> "root@fixly", password_hash |-> "h0"]
             [] u = "a1" ->
                  [id |-> u, role |-> "admin", tenant_id |-> "t1",
                   active |-> TRUE, email |-> "a1@fixly", password_hash |-> "h0"]
             [] OTHER ->
                  [id |-> u, role |-> "viewer", tenant_id |-> "t2",
                   active |-> TRUE, email |-> "v2@fixly", password_hash |-> "h0"] ]
  /\ sessions = { [id |-> "s1", user_id |-> "a1"], [id |-> "s2", user_id |-> "v2"] }
  /\ payments =
       [ p \in {"p1", "p2"} |->
           IF p = "p1"
           THEN [tenant_id |-> "t1", status |-> "approved", external_id |-> "e1"]
           ELSE [tenant_id |-> "t2", status |-> "pending", external_id |-> "e2"] ]
  /\ orders = [ o \in {"o1", "o2"} |-> [tenant_id |-> IF o = "o1" THEN "t1" ELSE "t2"] ]
  /\ audit = <<>>
  /\ ids = {}
  /\ inflight = {}

Init ==
  /\ InitStore
  /\ resp = [op |-> "none", uid |-> Null, req |-> Null, status |-> 0, code |-> "none",
             rows |-> {}, order |-> <<>>, tenantId |-> Null, tenantName |-> Null]

(***************************************************************************)
(* Helpers.                                                                *)
(***************************************************************************)
Reply(op, uid, req, status, code, rows) ==
  [op |-> op, uid |-> uid, req |-> req, status |-> status, code |-> code,
   rows |-> rows, order |-> <<>>, tenantId |-> Null, tenantName |-> Null]

\* generateId(): an id never handed out before
generateTenantId ==
  NewTenantSeq[Cardinality(ids \cap NewTenantIds) + 1]

generateUserId == NewUserSeq[Cardinality(ids \cap NewUserIds) + 1]

CanCreateTenant == Cardinality(ids \cap NewTenantIds) < MaxNewTenants

\* room for one more audit row (bound of the model)
AuditRoom == Len(audit) < MaxAudit

\* a JSON value handed to createAuditLog: null, or an object given by its fields
JsonNull == [kind |-> "null", fields |-> {}]

Obj(fields) == [kind |-> "object", fields |-> fields]

\* the JSON scalars false and "" (falsy in JavaScript)
JsonFalse == [kind |-> "false", fields |-> {}]

JsonEmptyString == [kind |-> "string", fields |-> {}]

\* JavaScript truthiness of a value handed to createAuditLog: objects are
\* truthy; null, undefined, false and "" are not
Truthy(v) == v.kind = "object"

\* JSON.stringify of a value: the text that denotes it
JSONstringify(v) == [kind |-> "json", of |-> v.kind, fields |-> v.fields]

\* JSON.parse of a text written by JSON.stringify
JSONparse(t) == [kind |-> t.of, fields |-> t.fields]

SqlNull == [kind |-> "NULL", of |-> "NULL", fields |-> {}]

\* the user row authMiddleware attaches to the request (SELECT ... active = 1)
authMiddleware(u) ==
  IF u \in DOMAIN users /\ users[u].active THEN users[u] ELSE NoUser

\* variant of requirePermission in which a role missing from the table falls
\* back to the viewer's permissions
requirePermissionDefaultViewer(user, permission) ==
  LET userPermissions ==
        IF user.role \in DOMAIN rolePermissions
        THEN rolePermissions[user.role] ELSE rolePermissions["viewer"]
  IN  user # NoUser /\ permission \in userPermissions

\* requirePermission(permission): TRUE iff the gate calls next()
requirePermission(user, permission) ==
  LET userPermissions ==
        IF user.role \in DOMAIN rolePermissions THEN rolePermissions[user.role] ELSE {}
  IN  user # NoUser /\ permission \in userPermissions

\* requireSuperAdmin(): TRUE iff the gate calls next()
requireSuperAdmin(user) == user # NoUser /\ user.role = "superadmin"

\* datetime('now') of the next INSERT INTO audit_logs
Now(log) == Len(log) + 1

\* createAuditLog: the audit_logs table (log) after the call
createAuditLog(log, user, action, resourceType, resourceId, oldValue, newValue) ==
  IF user = NoUser
  THEN log
  ELSE Append(log,
         [user_id |-> user.id, tenant_id |-> user.tenant_id, action |-> action,
          resource_type |-> resourceType, resource_id |-> resourceId,
          old_value |-> IF Truthy(oldValue) THEN JSONstringify(oldValue) ELSE SqlNull,
          new_value |-> IF Truthy(newValue) THEN JSONstringify(newValue) ELSE SqlNull,
          created_at |-> Now(log)])

(***************************************************************************)
(* The bearer credential as authMiddleware reads it.  A request carries an *)
(* Authorization header that starts with 'Bearer ' or not; the token has   *)
(* two or three non-empty dot-separated parts; its payload parses as JSON  *)
(* or not; exp is absent (<<>>) or a number of seconds (<<n>>); sub is a   *)
(* user id.  The clock is read in seconds.  The signature is not looked    *)
(* at.                                                                     *)
(***************************************************************************)
MaxClock == 2

Exps == {<<>>} \cup { <<n>> : n \in 0..MaxClock }

Subjects == {"root", "a1", "v2", "nobody"}

Tokens == [bearer : BOOLEAN, parts : {2, 3}, json : BOOLEAN, exp : Exps, sub : Subjects]

\* the userId of the payload, or Null; `payloadData.exp &&` is false of a
\* missing exp and of exp = 0
verifyToken(token, now) ==
  IF token.parts < 3 THEN Null
  ELSE IF ~token.json THEN Null
  ELSE IF token.exp # <<>> /\ token.exp[1] # 0 /\ now >= token.exp[1] THEN Null
  ELSE token.sub

\* authMiddleware in front of any /admin route, with the clock at now
AuthCheck(token, now) ==
  LET payload == IF token.bearer THEN verifyToken(token, now) ELSE Null
      user == IF payload = Null THEN NoUser ELSE authMiddleware(payload)
      req == [token |-> token, now |-> now]
  IN
  /\ resp' = IF ~token.bearer
             THEN Reply("auth", token.sub, req, 401, "Unauthorized", {})
             ELSE IF payload = Null
             THEN Reply("auth", token.sub, req, 401, "Invalid token", {})
             ELSE IF user = NoUser
             THEN Reply("auth", token.sub, req, 401, "User not found or inactive", {})
             ELSE Reply("auth", token.sub, req, 200, "next", {user.id})
  /\ UNCHANGED <<db, audit, ids, inflight>>

(***************************************************************************)
(* /admin/* without a live principal: authMiddleware answers 401.          *)
(***************************************************************************)
AuthRejected(u) ==
  /\ authMiddleware(u) = NoUser
  /\ resp' = Reply("any", u, Null, 401, "Unauthorized", {})
  /\ UNCHANGED <<db, audit, ids, inflight>>

\* app.onError: the answer to an exception no handler caught
onError(op, u, req) == Reply(op, u, req, 500, "Internal server error", {})

Forbidden(op, u, req) ==
  /\ resp' = Reply(op, u, req, 403, "Forbidden", {})
  /\ UNCHANGED <<db, audit, ids, inflight>>

(***************************************************************************)
(* /admin/tenants: every route sits behind the superadmin gate.  The       *)
(* router registers the factory (app.use('*', requireSuperAdmin)); the     *)
(* actions below take the gate that requireSuperAdmin() builds, so that    *)
(* the handlers' own behaviour is what is explored.                        *)
(***************************************************************************)
TenantBodies ==
  [name : {"Taller Sur", Undefined}, status : TenantStatuses \cup {Undefined}]

\* the snapshot of a tenant row handed to createAuditLog
TenantSnapshot(t) ==
  Obj({<<"name", tenants[t].name>>, <<"status", tenants[t].status>>})

BodySnapshot(body) ==
  Obj({<<"name", body.name>> : x \in IF body.name = Undefined THEN {} ELSE {1}}
      \cup {<<"status", body.status>> : x \in IF body.status = Undefined THEN {} ELSE {1}})

\* GET /admin/tenants
TenantsList(u) ==
  LET user == authMiddleware(u) IN
  /\ user # NoUser
  /\ IF ~requireSuperAdmin(user)
     THEN Forbidden("tenants.list", u, Null)
     ELSE /\ resp' = Reply("tenants.list", u, Null, 200, "OK", DOMAIN tenants)
          /\ UNCHANGED <<db, audit, ids, inflight>>

\* GET /admin/tenants/:id
TenantGet(u, id) ==
  LET user == authMiddleware(u) IN
  /\ user # NoUser
  /\ IF ~requireSuperAdmin(user)
     THEN Forbidden("tenants.get", u, id)
     ELSE /\ resp' = IF id \in DOMAIN tenants
                     THEN Reply("tenants.get", u, id, 200, "OK", {id})
                     ELSE Reply("tenants.get", u, id, 404, "Tenant not found", {})
          /\ UNCHANGED <<db, audit, ids, inflight>>

\* POST /admin/tenants
TenantCreate(u, body) ==
  LET user == authMiddleware(u)
      id == generateTenantId
      slug == slugify(body.name)
  IN
  /\ user # NoUser
  /\ IF ~requireSuperAdmin(user)
     THEN Forbidden("tenants.create", u, Null)
     ELSE IF body.name = Undefined
     THEN /\ resp' = Reply("tenants.create", u, Null, 400, "Name and email are required", {})
          /\ UNCHANGED <<db, audit, ids, inflight>>
     ELSE IF \E t \in DOMAIN tenants : tenants[t].slug = slug
     THEN /\ resp' = Reply("tenants.create", u, Null, 400, "Slug already exists", {})
          /\ UNCHANGED <<db, audit, ids, inflight>>
     ELSE /\ CanCreateTenant
          /\ AuditRoom
          /\ tenants' =
               [ t \in DOMAIN tenants \cup {id} |->
                   IF t = id
                   THEN [name |-> body.name, slug |-> slug,
                         status |-> IF body.status # Undefined THEN body.status ELSE "trial",
                         trial_ends_at |-> IF body.status = "trial" THEN "set" ELSE Null,
                         mercadopago_enabled |-> FALSE, settings |-> "default"]
                   ELSE tenants[t] ]
          /\ ids' = ids \cup {id}
          /\ audit' = createAuditLog(audit, user, "tenant.created", "tenant", id, JsonNull,
                                     Obj({<<"name", body.name>>}))
          /\ resp' = Reply("tenants.create", u, Null, 201, "OK", {id})
          /\ UNCHANGED <<users, sessions, payments, orders, inflight>>

\* PUT /admin/tenants/:id
TenantUpdate(u, id, body) ==
  LET user == authMiddleware(u) IN
  /\ user # NoUser
  /\ IF ~requireSuperAdmin(user)
     THEN Forbidden("tenants.update", u, id)
     ELSE IF id \notin DOMAIN tenants
     THEN /\ resp' = Reply("tenants.update", u, id, 404, "Tenant not found", {})
          /\ UNCHANGED <<db, audit, ids, inflight>>
     ELSE IF body.name = Undefined /\ body.status = Undefined
     THEN /\ resp' = Reply("tenants.update", u, id, 400, "No fields to update", {})
          /\ UNCHANGED <<db, audit, ids, inflight>>
     ELSE /\ AuditRoom
          /\ tenants' =
               [tenants EXCEPT
                  ![id].name = IF body.name # Undefined THEN body.name ELSE @,
                  ![id].status = IF body.status # Undefined THEN body.status ELSE @]
          /\ audit' = createAuditLog(audit, user, "tenant.updated", "tenant", id,
                                     TenantSnapshot(id), BodySnapshot(body))
          /\ resp' = Reply("tenants.update", u, id, 200, "OK", {id})
          /\ UNCHANGED <<users, sessions, payments, orders, ids, inflight>>

\* DELETE FROM tenants WHERE id = ?, with the schema's ON DELETE actions
DeleteTenantRow(id) ==
  /\ tenants' = [ t \in DOMAIN tenants \ {id} |-> tenants[t] ]
  /\ users' = [ x \in DOMAIN users |->
                  IF users[x].tenant_id = id
                  THEN [users[x] EXCEPT !.tenant_id = Null] ELSE users[x] ]
  /\ payments' = [ p \in {q \in DOMAIN payments : payments[q].tenant_id # id} |-> payments[p] ]
  /\ orders' = [ o \in {q \in DOMAIN orders : orders[q].tenant_id # id} |-> orders[o] ]

AuditAfterTenantDelete(id, log) ==
  [ i \in 1..Len(log) |->
      IF log[i].tenant_id = id THEN [log[i] EXCEPT !.tenant_id = Null] ELSE log[i] ]

\* DELETE /admin/tenants/:id
TenantDelete(u, id) ==
  LET user == authMiddleware(u) IN
  /\ user # NoUser
  /\ IF ~requireSuperAdmin(user)
     THEN Forbidden("tenants.delete", u, id)
     ELSE IF id \notin DOMAIN tenants
     THEN /\ resp' = Reply("tenants.delete", u, id, 404, "Tenant not found", {})
          /\ UNCHANGED <<db, audit, ids, inflight>>
     ELSE /\ AuditRoom
          /\ DeleteTenantRow(id)
          /\ audit' = createAuditLog(AuditAfterTenantDelete(id, audit), user,
                                     "tenant.deleted", "tenant", id,
                                     TenantSnapshot(id), JsonNull)
          /\ resp' = Reply("tenants.delete", u, id, 200, "OK", {id})
          /\ UNCHANGED <<sessions, ids, inflight>>

\* UPDATE tenants SET status = ? WHERE id = ?
SetTenantStatus(id, status) ==
  IF id \in DOMAIN tenants THEN [tenants EXCEPT ![id].status = status] ELSE tenants

\* POST /admin/tenants/:id/suspend
TenantSuspend(u, id) ==
  LET user == authMiddleware(u) IN
  /\ user # NoUser
  /\ IF ~requireSuperAdmin(user)
     THEN Forbidden("tenants.suspend", u, id)
     ELSE /\ AuditRoom
          /\ tenants' = SetTenantStatus(id, "suspended")
          /\ audit' = createAuditLog(audit, user, "tenant.updated", "tenant", id, JsonNull,
                                     Obj({<<"status", "suspended">>, <<"reason", "r">>}))
          /\ resp' = Reply("tenants.suspend", u, id, 200, "OK", {id})
          /\ UNCHANGED <<users, sessions, payments, orders, ids, inflight>>

\* POST /admin/tenants/:id/activate
TenantActivate(u, id) ==
  LET user == authMiddleware(u) IN
  /\ user # NoUser
  /\ IF ~requireSuperAdmin(user)
     THEN Forbidden("tenants.activate", u, id)
     ELSE /\ AuditRoom
          /\ tenants' = SetTenantStatus(id, "active")
          /\ audit' = createAuditLog(audit, user, "tenant.updated", "tenant", id, JsonNull,
                                     Obj({<<"status", "active">>}))
          /\ resp' = Reply("tenants.activate", u, id, 200, "OK", {id})
          /\ UNCHANGED <<users, sessions, payments, orders, ids, inflight>>

(***************************************************************************)
(* requireActiveTenant: the lifecycle gate of the app's own traffic.       *)
(***************************************************************************)
Pass == [next |-> TRUE, status |-> 200, code |-> "OK", tenantId |-> Null, tenantName |-> Null]

\* variant of requireActiveTenant that lets a cancelled tenant through
requireActiveTenantCancelledPasses(user) ==
  IF user = NoUser \/ user.role = "superadmin" THEN Pass
  ELSE IF user.tenant_id = Null THEN Pass
  ELSE IF user.tenant_id \notin DOMAIN tenants
  THEN [next |-> FALSE, status |-> 404, code |-> "TENANT_NOT_FOUND",
        tenantId |-> Null, tenantName |-> Null]
  ELSE LET tenant == tenants[user.tenant_id] IN
       IF tenant.status = "suspended"
       THEN [next |-> FALSE, status |-> 403, code |-> "TENANT_SUSPENDED",
             tenantId |-> user.tenant_id, tenantName |-> tenant.name]
       ELSE Pass

\* variant of requireActiveTenant that rejects a principal only once: right
\* after a rejection of the same principal it lets the request through
requireActiveTenantRejectsOnce(user) ==
  IF user = NoUser \/ user.role = "superadmin" THEN Pass
  ELSE IF user.tenant_id = Null THEN Pass
  ELSE IF user.tenant_id \notin DOMAIN tenants
  THEN [next |-> FALSE, status |-> 404, code |-> "TENANT_NOT_FOUND",
        tenantId |-> Null, tenantName |-> Null]
  ELSE LET tenant == tenants[user.tenant_id] IN
       IF resp.op = "lifecycle" /\ resp.uid = user.id /\ resp.status = 403 THEN Pass
       ELSE IF tenant.status = "suspended"
       THEN [next |-> FALSE, status |-> 403, code |-> "TENANT_SUSPENDED",
             tenantId |-> user.tenant_id, tenantName |-> tenant.name]
       ELSE IF tenant.status = "cancelled"
       THEN [next |-> FALSE, status |-> 403, code |-> "TENANT_CANCELLED",
             tenantId |-> user.tenant_id, tenantName |-> Null]
       ELSE Pass

requireActiveTenant(user) ==
  IF user = NoUser \/ user.role = "superadmin" THEN Pass
  ELSE IF user.tenant_id = Null THEN Pass
  ELSE IF user.tenant_id \notin DOMAIN tenants
  THEN [next |-> FALSE, status |-> 404, code |-> "TENANT_NOT_FOUND",
        tenantId |-> Null, tenantName |-> Null]
  ELSE LET tenant == tenants[user.tenant_id] IN
       IF tenant.status = "suspended"
       THEN [next |-> FALSE, status |-> 403, code |-> "TENANT_SUSPENDED",
             tenantId |-> user.tenant_id, tenantName |-> tenant.name]
       ELSE IF tenant.status = "cancelled"
       THEN [next |-> FALSE, status |-> 403, code |-> "TENANT_CANCELLED",
             tenantId |-> user.tenant_id, tenantName |-> Null]
       ELSE Pass

\* a request of the app that runs the lifecycle gate for principal u
\* (u = Null: no principal on the request context)
LifecycleCheck(u) ==
  LET user == IF u = Null THEN NoUser ELSE authMiddleware(u)
      r == requireActiveTenant(user)
  IN
  /\ u = Null \/ user # NoUser
  /\ resp' = [op |-> "lifecycle", uid |-> u, req |-> Null, status |-> r.status,
              code |-> r.code, rows |-> {}, order |-> <<>>, tenantId |-> r.tenantId,
              tenantName |-> r.tenantName]
  /\ UNCHANGED <<db, audit, ids, inflight>>

(***************************************************************************)
(* The authorization gate on its own: requirePermission(cap) in front of   *)
(* a handler, for a principal of any role string.                          *)
(***************************************************************************)
GateCheck(role, cap) ==
  LET user == [id |-> "probe", role |-> role, tenant_id |-> Null, active |-> TRUE,
               email |-> Null, password_hash |-> Null]
  IN
  /\ resp' = IF requirePermission(user, cap)
             THEN Reply("gate", role, cap, 200, "handler", {})
             ELSE Reply("gate", role, cap, 403, "Forbidden", {})
  /\ UNCHANGED <<db, audit, ids, inflight>>

(***************************************************************************)
(* The admin gate on its own: requireAdmin() in front of a handler.  An    *)
(* email is a sequence of characters; ADMIN_BOOTSTRAP_EMAIL is Unset when   *)
(* the environment does not define it.                                     *)
(***************************************************************************)
Chars == {"a", "A", "b", "B"}

MaxEmailLen == 2

GateEmails == UNION { [1..n -> Chars] : n \in 0..MaxEmailLen }

\* c.env.ADMIN_BOOTSTRAP_EMAIL of an environment without the variable
Unset == <<Undefined>>

BootstrapEmails == GateEmails \cup {Unset}

\* String.prototype.toLowerCase
toLowerCase(str) ==
  [ i \in DOMAIN str |->
      CASE str[i] = "A" -> "a"
        [] str[i] = "B" -> "b"
        [] OTHER -> str[i] ]

requireAdminCaseSensitive(user, bootstrapEmail) ==
  IF user = NoUser THEN FALSE
  ELSE IF user.role = "superadmin" \/ user.role = "admin" THEN TRUE
  ELSE /\ bootstrapEmail # Unset
       /\ bootstrapEmail # <<>>
       /\ user.email = bootstrapEmail

\* TRUE iff the gate calls next(); `bootstrapEmail &&` is false of an unset
\* variable and of the empty string
requireAdmin(user, bootstrapEmail) ==
  IF user = NoUser THEN FALSE
  ELSE IF user.role = "superadmin" \/ user.role = "admin" THEN TRUE
  ELSE /\ bootstrapEmail # Unset
       /\ bootstrapEmail # <<>>
       /\ toLowerCase(user.email) = toLowerCase(bootstrapEmail)

\* a request on its way to the gate: a principal with a role and an email
\* (or no principal), in an environment with some ADMIN_BOOTSTRAP_EMAIL
AdminRequests ==
  { Reply("admin.request", r, [email |-> e, bootstrapEmail |-> b], 0, "pending", {}) :
      r \in KnownRoles, e \in GateEmails, b \in BootstrapEmails }
  \cup
  { Reply("admin.request", Null, [email |-> <<>>, bootstrapEmail |-> b], 0, "pending", {}) :
      b \in BootstrapEmails }

InitAdminGate ==
  /\ InitStore
  /\ resp \in AdminRequests

\* the gate answers the request of a principal
AdminGateCheck ==
  LET user == [id |-> "probe", role |-> resp.uid, tenant_id |-> Null, active |-> TRUE,
               email |-> resp.req.email, password_hash |-> Null]
  IN
  /\ resp.op = "admin.request"
  /\ resp.uid # Null
  /\ resp' = IF requireAdmin(user, resp.req.bootstrapEmail)
             THEN [resp EXCEPT !.op = "admin.gate", !.status = 200, !.code = "handler"]
             ELSE [resp EXCEPT !.op = "admin.gate", !.status = 403, !.code = "forbidden"]
  /\ UNCHANGED <<db, audit, ids, inflight>>

\* the gate answers a request that carries no principal
AdminGateNoUser ==
  /\ resp.op = "admin.request"
  /\ resp.uid = Null
  /\ resp' = IF requireAdmin(NoUser, resp.req.bootstrapEmail)
             THEN [resp EXCEPT !.op = "admin.gate", !.status = 200, !.code = "handler"]
             ELSE [resp EXCEPT !.op = "admin.gate", !.status = 403, !.code = "forbidden"]
  /\ UNCHANGED <<db, audit, ids, inflight>>

(***************************************************************************)
(* Tenant-scoped reads.  SQL's "col = ?" is never true of a NULL.          *)
(***************************************************************************)
SqlEq(col, val) == col # Null /\ val # Null /\ col = val

\* the tenant ids a request may name
TargetTenants == SeedTenantIds \cup DOMAIN tenants

\* variant of ListScope that drops the superadmin's tenantId filter
ListScopeUnfiltered(user, tenantId, rowTenant) ==
  IF user.role # "superadmin" THEN SqlEq(rowTenant, user.tenant_id)
  ELSE TRUE

\* the WHERE clause of the four list routes: tenant_id of a row against the
\* principal and the tenantId query parameter
ListScope(user, tenantId, rowTenant) ==
  IF user.role # "superadmin" THEN SqlEq(rowTenant, user.tenant_id)
  ELSE IF tenantId # Undefined THEN SqlEq(rowTenant, tenantId)
  ELSE TRUE

\* variant of AuditScope without the tenant filter of the non-superadmin
AuditScopeEveryRow(user, tenantId, rowTenant) ==
  IF user.role # "superadmin" THEN TRUE
  ELSE IF tenantId # Undefined THEN SqlEq(rowTenant, tenantId)
  ELSE TRUE

\* the WHERE clause of GET /admin/audit: own tenant or untenanted rows
AuditScope(user, tenantId, rowTenant) ==
  IF user.role # "superadmin"
  THEN SqlEq(rowTenant, user.tenant_id) \/ rowTenant = Null
  ELSE IF tenantId # Undefined THEN SqlEq(rowTenant, tenantId)
  ELSE TRUE

\* the WHERE clause of the single-row fetches
GetScope(user, rowTenant) ==
  user.role = "superadmin" \/ SqlEq(rowTenant, user.tenant_id)

Read(op, u, req, rows) ==
  /\ resp' = Reply(op, u, req, 200, "OK", rows)
  /\ UNCHANGED <<db, audit, ids, inflight>>

NotFound(op, u, req) ==
  /\ resp' = Reply(op, u, req, 404, "Not found", {})
  /\ UNCHANGED <<db, audit, ids, inflight>>

\* GET /admin/users
UsersList(u, tenantId) ==
  LET user == authMiddleware(u) IN
  /\ user # NoUser
  /\ IF ~requirePermission(user, "users:read")
     THEN Forbidden("users.list", u, tenantId)
     ELSE Read("users.list", u, tenantId,
               {x \in DOMAIN users : ListScope(user, tenantId, users[x].tenant_id)})

\* GET /admin/users/:id
UserGet(u, id) ==
  LET user == authMiddleware(u) IN
  /\ user # NoUser
  /\ IF ~requirePermission(user, "users:read")
     THEN Forbidden("users.get", u, id)
     ELSE IF id \in DOMAIN users /\ GetScope(user, users[id].tenant_id)
     THEN Read("users.get", u, id, {id})
     ELSE NotFound("users.get", u, id)

\* GET /admin/users/:id/sessions
UserSessions(u, id) ==
  LET user == authMiddleware(u) IN
  /\ user # NoUser
  /\ IF ~requirePermission(user, "users:read")
     THEN Forbidden("users.sessions", u, id)
     ELSE Read("users.sessions", u, id, {x.id : x \in {y \in sessions : y.user_id = id}})

\* GET /admin/payments
PaymentsList(u, tenantId) ==
  LET user == authMiddleware(u) IN
  /\ user # NoUser
  /\ IF ~requirePermission(user, "payments:read")
     THEN Forbidden("payments.list", u, tenantId)
     ELSE Read("payments.list", u, tenantId,
               {x \in DOMAIN payments : ListScope(user, tenantId, payments[x].tenant_id)})

\* the chain registered for GET /:id of the payments router
\* (requirePermission('payments:read'), then the handler), answering a
\* request logged as op
PaymentGetChain(op, u, id) ==
  LET user == authMiddleware(u) IN
  /\ user # NoUser
  /\ IF ~requirePermission(user, "payments:read")
     THEN Forbidden(op, u, id)
     ELSE IF id \in DOMAIN payments /\ GetScope(user, payments[id].tenant_id)
     THEN Read(op, u, id, {id})
     ELSE NotFound(op, u, id)

\* GET /admin/payments/:id
PaymentGet(u, id) == PaymentGetChain("payments.get", u, id)

\* GET /admin/payments/export: GET /:id is registered first and matches the
\* path with id = "export"; its chain answers every request, so the chain
\* registered for /export is never reached
PaymentsExport(u) == PaymentGetChain("payments.export", u, "export")

\* GET /admin/operations/orders
OrdersList(u, tenantId) ==
  LET user == authMiddleware(u) IN
  /\ user # NoUser
  /\ IF ~requirePermission(user, "operations:read")
     THEN Forbidden("orders.list", u, tenantId)
     ELSE Read("orders.list", u, tenantId,
               {x \in DOMAIN orders : ListScope(user, tenantId, orders[x].tenant_id)})

\* the chain registered for GET /orders/:id (requirePermission(
\* 'operations:read'), then the handler), answering a request logged as op
OrderGetChain(op, u, id) ==
  LET user == authMiddleware(u) IN
  /\ user # NoUser
  /\ IF ~requirePermission(user, "operations:read")
     THEN Forbidden(op, u, id)
     ELSE IF id \in DOMAIN orders /\ GetScope(user, orders[id].tenant_id)
     THEN Read(op, u, id, {id})
     ELSE NotFound(op, u, id)

\* GET /admin/operations/orders/:id
OrderGet(u, id) == OrderGetChain("orders.get", u, id)

\* GET /admin/operations/orders/export: captured by GET /orders/:id, which
\* is registered first, with id = "export"
OrdersExport(u) == OrderGetChain("orders.export", u, "export")

\* ORDER BY created_at DESC: the rows (positions in audit_logs), newest first
OrderByCreatedAtDesc(rows) ==
  CHOOSE s \in [1..Cardinality(rows) -> rows] :
    \A i, j \in 1..Cardinality(rows) :
      i < j => s[i] # s[j] /\ audit[s[i]].created_at >= audit[s[j]].created_at

\* GET /admin/audit: the positions of the rows sent back, and their order
AuditList(u, tenantId) ==
  LET user == authMiddleware(u)
      rows == {i \in 1..Len(audit) : AuditScope(user, tenantId, audit[i].tenant_id)}
  IN
  /\ user # NoUser
  /\ IF ~requirePermission(user, "audit:read")
     THEN Forbidden("audit.list", u, tenantId)
     ELSE /\ resp' = [Reply("audit.list", u, tenantId, 200, "OK", rows)
                        EXCEPT !.order = OrderByCreatedAtDesc(rows)]
          /\ UNCHANGED <<db, audit, ids, inflight>>

\* GET /admin/audit/export: no tenantId parameter
AuditExport(u) ==
  LET user == authMiddleware(u)
      rows == {i \in 1..Len(audit) : AuditScope(user, Undefined, audit[i].tenant_id)}
  IN
  /\ user # NoUser
  /\ IF ~requirePermission(user, "audit:export")
     THEN Forbidden("audit.export", u, Null)
     ELSE /\ resp' = [Reply("audit.export", u, Null, 200, "OK", rows)
                        EXCEPT !.order = OrderByCreatedAtDesc(rows)]
          /\ UNCHANGED <<db, audit, ids, inflight>>

\* the WHERE clause of GET /admin/dashboard/activity, with the principal's
\* tenant id written into the SQL text
ActivityScope(user, rowTenant) ==
  IF user.role # "superadmin"
  THEN (rowTenant # Null /\ user.tenant_id # Null /\ rowTenant = user.tenant_id)
       \/ rowTenant = Null
  ELSE TRUE

\* GET /admin/dashboard/activity: no permission gate
DashboardActivity(u) ==
  LET user == authMiddleware(u)
      rows == {i \in 1..Len(audit) : ActivityScope(user, audit[i].tenant_id)}
  IN
  /\ user # NoUser
  /\ resp' = [Reply("dashboard.activity", u, Null, 200, "OK", rows)
               EXCEPT !.order = OrderByCreatedAtDesc(rows)]
  /\ UNCHANGED <<db, audit, ids, inflight>>

\* GET /admin/dashboard/stats: no permission gate; of the answer only
\* recentActivity, the audit records, is kept
DashboardStats(u) ==
  LET user == authMiddleware(u)
      rows == {i \in 1..Len(audit) : ActivityScope(user, audit[i].tenant_id)}
  IN
  /\ user # NoUser
  /\ resp' = [Reply("dashboard.stats", u, Null, 200, "OK", rows)
               EXCEPT !.order = OrderByCreatedAtDesc(rows)]
  /\ UNCHANGED <<db, audit, ids, inflight>>

(***************************************************************************)
(* /admin/users: mutations.                                                *)
(***************************************************************************)
UserBodies == [role : {Undefined, "operator"}, active : {Undefined, "false"}]

UserSnapshot(id) ==
  Obj({<<"role", users[id].role>>, <<"password_hash", users[id].password_hash>>})

UserBodySnapshot(body) ==
  Obj({<<"role", body.role>> : x \in IF body.role = Undefined THEN {} ELSE {1}}
      \cup {<<"active", body.active>> : x \in IF body.active = Undefined THEN {} ELSE {1}})

Done(op, u, req) == resp' = Reply(op, u, req, 200, "OK", {req})

\* PUT /admin/users/:id
UserUpdate(u, id, body) ==
  LET user == authMiddleware(u) IN
  /\ user # NoUser
  /\ IF ~requirePermission(user, "users:write")
     THEN Forbidden("users.update", u, id)
     ELSE IF id \notin DOMAIN users
     THEN NotFound("users.update", u, id)
     ELSE IF user.role # "superadmin" /\ users[id].tenant_id # user.tenant_id
     THEN Forbidden("users.update", u, id)
     ELSE IF (body.role = Undefined \/ user.role # "superadmin") /\ body.active = Undefined
     THEN /\ resp' = Reply("users.update", u, id, 400, "No fields to update", {})
          /\ UNCHANGED <<db, audit, ids, inflight>>
     ELSE /\ AuditRoom
          /\ users' =
               [users EXCEPT
                  ![id].role = IF body.role # Undefined /\ user.role = "superadmin"
                               THEN body.role ELSE @,
                  ![id].active = IF body.active # Undefined THEN FALSE ELSE @]
          /\ audit' = createAuditLog(audit, user, "user.updated", "user", id,
                                     UserSnapshot(id), UserBodySnapshot(body))
          /\ Done("users.update", u, id)
          /\ UNCHANGED <<tenants, sessions, payments, orders, ids, inflight>>

MaxNewUsers == 1

CanCreateUser == Cardinality(ids \cap NewUserIds) < MaxNewUsers

\* bodies of POST /admin/users and POST /admin/users/invite; "t9" is the id
\* of no tenant
NewUserBodies ==
  [email : {"new@fixly", "a1@fixly"},
   role : {Undefined, "operator", "superadmin"},
   tenantId : {Undefined, "t1", "t9"}]

\* the INSERT INTO users of the two routes: role has a CHECK constraint and
\* tenant_id REFERENCES tenants(id); a refused INSERT throws and app.onError
\* answers
InsertUser(op, u, user, id, body, role, tenantId, newValue, status) ==
  IF role \notin KnownRoles \/ (tenantId # Null /\ tenantId \notin DOMAIN tenants)
  THEN /\ resp' = onError(op, u, body)
       /\ UNCHANGED <<db, audit, ids, inflight>>
  ELSE /\ CanCreateUser
       /\ AuditRoom
       /\ users' =
            [ x \in DOMAIN users \cup {id} |->
                IF x = id
                THEN [id |-> id, role |-> role, tenant_id |-> tenantId, active |-> TRUE,
                      email |-> body.email, password_hash |-> "h1"]
                ELSE users[x] ]
       /\ ids' = ids \cup {id}
       /\ audit' = createAuditLog(audit, user, "user.created", "user", id, JsonNull, newValue)
       /\ resp' = Reply(op, u, body, status, "OK", {id})
       /\ UNCHANGED <<tenants, sessions, payments, orders, inflight>>

\* POST /admin/users
UserCreate(u, body) ==
  LET user == authMiddleware(u)
      tenantId == IF user.role = "superadmin"
                  THEN (IF body.tenantId # Undefined THEN body.tenantId ELSE Null)
                  ELSE user.tenant_id
      role == IF user.role = "superadmin"
              THEN (IF body.role # Undefined THEN body.role ELSE "operator")
              ELSE IF body.role # "superadmin"
              THEN (IF body.role # Undefined THEN body.role ELSE "operator")
              ELSE "operator"
  IN
  /\ user # NoUser
  /\ IF ~requirePermission(user, "users:write")
     THEN Forbidden("users.create", u, body)
     ELSE IF \E x \in DOMAIN users : users[x].email = body.email
     THEN /\ resp' = Reply("users.create", u, body, 400, "Email already exists", {})
          /\ UNCHANGED <<db, audit, ids, inflight>>
     ELSE InsertUser("users.create", u, user, generateUserId, body, role, tenantId,
                     Obj({<<"email", body.email>>, <<"role", role>>}), 201)

\* POST /admin/users/invite
UserInvite(u, body) ==
  LET user == authMiddleware(u)
      finalTenantId == IF user.role = "superadmin"
                       THEN (IF body.tenantId # Undefined THEN body.tenantId ELSE Null)
                       ELSE user.tenant_id
      role == IF body.role # Undefined THEN body.role ELSE "operator"
  IN
  /\ user # NoUser
  /\ IF ~requirePermission(user, "users:invite")
     THEN Forbidden("users.invite", u, body)
     ELSE IF \E x \in DOMAIN users : users[x].email = body.email
     THEN /\ resp' = Reply("users.invite", u, body, 400, "User already exists", {})
          /\ UNCHANGED <<db, audit, ids, inflight>>
     ELSE InsertUser("users.invite", u, user, generateUserId, body, role, finalTenantId,
                     Obj({<<"email", body.email>>, <<"role", body.role>>,
                          <<"invited", "true">>}), 200)

\* DELETE /admin/users/:id (sessions go with the user: ON DELETE CASCADE)
UserDelete(u, id) ==
  LET user == authMiddleware(u) IN
  /\ user # NoUser
  /\ IF ~requirePermission(user, "users:delete")
     THEN Forbidden("users.delete", u, id)
     ELSE IF id \notin DOMAIN users
     THEN NotFound("users.delete", u, id)
     ELSE IF user.role # "superadmin" /\ users[id].tenant_id # user.tenant_id
     THEN Forbidden("users.delete", u, id)
     ELSE IF id = user.id
     THEN /\ resp' = Reply("users.delete", u, id, 400, "Cannot delete yourself", {})
          /\ UNCHANGED <<db, audit, ids, inflight>>
     ELSE /\ AuditRoom
          /\ users' = [ x \in DOMAIN users \ {id} |-> users[x] ]
          /\ sessions' = {x \in sessions : x.user_id # id}
          /\ audit' = createAuditLog(audit, user, "user.deleted", "user", id,
                                     UserSnapshot(id), JsonNull)
          /\ Done("users.delete", u, id)
          /\ UNCHANGED <<tenants, payments, orders, ids, inflight>>

\* the hash of a freshly drawn temporary password: not the stored one
NewHash(old) == IF old = "h1" THEN "h2" ELSE "h1"

\* POST /admin/users/:id/reset-password
UserResetPassword(u, id) ==
  LET user == authMiddleware(u) IN
  /\ user # NoUser
  /\ IF ~requirePermission(user, "users:write")
     THEN Forbidden("users.reset", u, id)
     ELSE IF id \notin DOMAIN users
     THEN NotFound("users.reset", u, id)
     ELSE /\ AuditRoom
          /\ users' = [users EXCEPT ![id].password_hash = NewHash(@)]
          /\ audit' = createAuditLog(audit, user, "user.updated", "user", id, JsonNull,
                                     Obj({<<"passwordReset", "true">>}))
          /\ Done("users.reset", u, id)
          /\ UNCHANGED <<tenants, sessions, payments, orders, ids, inflight>>

\* UPDATE users SET active = ? WHERE id = ?
SetUserActive(id, active) ==
  IF id \in DOMAIN users THEN [users EXCEPT ![id].active = active] ELSE users

\* POST /admin/users/:id/block
UserBlock(u, id) ==
  LET user == authMiddleware(u) IN
  /\ user # NoUser
  /\ IF ~requirePermission(user, "users:write")
     THEN Forbidden("users.block", u, id)
     ELSE /\ AuditRoom
          /\ users' = SetUserActive(id, FALSE)
          /\ audit' = createAuditLog(audit, user, "user.updated", "user", id, JsonNull,
                                     Obj({<<"blocked", "true">>, <<"reason", "r">>}))
          /\ Done("users.block", u, id)
          /\ UNCHANGED <<tenants, sessions, payments, orders, ids, inflight>>

\* POST /admin/users/:id/unblock
UserUnblock(u, id) ==
  LET user == authMiddleware(u) IN
  /\ user # NoUser
  /\ IF ~requirePermission(user, "users:write")
     THEN Forbidden("users.unblock", u, id)
     ELSE /\ AuditRoom
          /\ users' = SetUserActive(id, TRUE)
          /\ audit' = createAuditLog(audit, user, "user.updated", "user", id, JsonNull,
                                     Obj({<<"blocked", "false">>}))
          /\ Done("users.unblock", u, id)
          /\ UNCHANGED <<tenants, sessions, payments, orders, ids, inflight>>

\* DELETE /admin/users/:userId/sessions/:sessionId
SessionTerminate(u, userId, sessionId) ==
  LET user == authMiddleware(u) IN
  /\ user # NoUser
  /\ IF ~requirePermission(user, "users:write")
     THEN Forbidden("sessions.terminate", u, sessionId)
     ELSE /\ sessions' = {x \in sessions : ~(x.id = sessionId /\ x.user_id = userId)}
          /\ Done("sessions.terminate", u, sessionId)
          /\ UNCHANGED <<tenants, users, payments, orders, audit, ids, inflight>>

(***************************************************************************)
(* /admin/payments: refund.                                                *)
(***************************************************************************)
\* variant of PaymentRefund without the test of the payment's status
PaymentRefundAnyStatus(u, id) ==
  LET user == authMiddleware(u) IN
  /\ user # NoUser
  /\ IF ~requirePermission(user, "payments:refund")
     THEN Forbidden("payments.refund", u, id)
     ELSE IF id \notin DOMAIN payments
     THEN NotFound("payments.refund", u, id)
     ELSE /\ AuditRoom
          /\ payments' = [payments EXCEPT ![id].status = "refunded"]
          /\ audit' = createAuditLog(audit, user, "payment.refunded", "payment", id,
                                     Obj({<<"status", "approved">>}),
                                     Obj({<<"status", "refunded">>, <<"reason", "r">>}))
          /\ Done("payments.refund", u, id)
          /\ UNCHANGED <<tenants, users, sessions, orders, ids, inflight>>

\* POST /admin/payments/:id/refund
PaymentRefund(u, id) ==
  LET user == authMiddleware(u) IN
  /\ user # NoUser
  /\ IF ~requirePermission(user, "payments:refund")
     THEN Forbidden("payments.refund", u, id)
     ELSE IF id \notin DOMAIN payments
     THEN NotFound("payments.refund", u, id)
     ELSE IF payments[id].status # "approved"
     THEN /\ resp' = Reply("payments.refund", u, id, 400,
                           "Only approved payments can be refunded", {})
          /\ UNCHANGED <<db, audit, ids, inflight>>
     ELSE /\ AuditRoom
          /\ payments' = [payments EXCEPT ![id].status = "refunded"]
          /\ audit' = createAuditLog(audit, user, "payment.refunded", "payment", id,
                                     Obj({<<"status", "approved">>}),
                                     Obj({<<"status", "refunded">>, <<"reason", "r">>}))
          /\ Done("payments.refund", u, id)
          /\ UNCHANGED <<tenants, users, sessions, orders, ids, inflight>>

(***************************************************************************)
(* /admin/config: tenant settings and the MercadoPago switch.              *)
(***************************************************************************)
\* the chain registered for GET /:tenantId (requirePermission('config:read'),
\* then the handler), answering a request logged as op
ConfigGetChain(op, u, tenantId) ==
  LET user == authMiddleware(u) IN
  /\ user # NoUser
  /\ IF ~requirePermission(user, "config:read")
     THEN Forbidden(op, u, tenantId)
     ELSE IF user.role # "superadmin" /\ tenantId # user.tenant_id /\ tenantId # "global"
     THEN Forbidden(op, u, tenantId)
     ELSE IF tenantId = "global"
     THEN IF user.role # "superadmin"
          THEN Forbidden(op, u, tenantId)
          ELSE Read(op, u, tenantId, {})
     ELSE IF tenantId \notin DOMAIN tenants
     THEN NotFound(op, u, tenantId)
     ELSE Read(op, u, tenantId, {tenantId})

\* GET /admin/config/:tenantId
ConfigGet(u, tenantId) == ConfigGetChain("config.get", u, tenantId)

\* GET /admin/config/health: GET /:tenantId is registered first and matches
\* the path with tenantId = "health"; its chain answers every request, so
\* the chain registered for /health is never reached
ConfigHealth(u) == ConfigGetChain("config.health", u, "health")

(***************************************************************************)
(* /admin/tenants as the router dispatches it.  app.use('*',               *)
(* requireSuperAdmin) registers the factory as the middleware: called with *)
(* (c, next) it builds a gate and returns it, without running it and       *)
(* without calling next(), so no route handler behind it runs.  What the   *)
(* framework sends for a middleware that returns a function instead of a   *)
(* Response is not fixed by this code: an empty 200 or the 500 of          *)
(* app.onError.                                                            *)
(***************************************************************************)
TenantRoutes ==
  {"GET /", "GET /:id", "POST /", "PUT /:id", "DELETE /:id",
   "POST /:id/suspend", "POST /:id/activate", "GET /:id/stats"}

TenantsRouted(u, route) ==
  LET user == authMiddleware(u) IN
  /\ user # NoUser
  /\ \/ resp' = Reply("tenants.routed", u, route, 200, "no handler", {})
     \/ resp' = onError("tenants.routed", u, route)
  /\ UNCHANGED <<db, audit, ids, inflight>>

\* PUT /admin/config/:tenantId
ConfigPut(u, tenantId) ==
  LET user == authMiddleware(u) IN
  /\ user # NoUser
  /\ IF ~requirePermission(user, "config:write")
     THEN Forbidden("config.put", u, tenantId)
     ELSE IF user.role # "superadmin" /\ tenantId # user.tenant_id
     THEN Forbidden("config.put", u, tenantId)
     ELSE IF tenantId \notin DOMAIN tenants
     THEN NotFound("config.put", u, tenantId)
     ELSE /\ AuditRoom
          /\ tenants' = [tenants EXCEPT ![tenantId].settings = "custom"]
          /\ audit' = createAuditLog(audit, user, "config.updated", "config", tenantId,
                                     Obj({<<"settings", tenants[tenantId].settings>>}),
                                     Obj({<<"settings", "custom">>}))
          /\ Done("config.put", u, tenantId)
          /\ UNCHANGED <<users, sessions, payments, orders, ids, inflight>>

\* GET /admin/config/mercadopago/:tenantId
MercadoPagoGet(u, tenantId) ==
  LET user == authMiddleware(u) IN
  /\ user # NoUser
  /\ IF ~requirePermission(user, "mercadopago:read")
     THEN Forbidden("mercadopago.get", u, tenantId)
     ELSE IF tenantId \notin DOMAIN tenants
     THEN NotFound("mercadopago.get", u, tenantId)
     ELSE Read("mercadopago.get", u, tenantId, {tenantId})

\* PUT /admin/config/mercadopago/:tenantId
MercadoPagoPut(u, tenantId, enabled) ==
  LET user == authMiddleware(u) IN
  /\ user # NoUser
  /\ IF ~requirePermission(user, "mercadopago:write")
     THEN Forbidden("mercadopago.put", u, tenantId)
     ELSE /\ AuditRoom
          /\ tenants' = IF tenantId \in DOMAIN tenants
                        THEN [tenants EXCEPT ![tenantId].mercadopago_enabled = enabled]
                        ELSE tenants
          /\ audit' = createAuditLog(audit, user, "config.updated", "mercadopago", tenantId,
                                     JsonNull,
                                     Obj({<<"enabled", IF enabled THEN "true" ELSE "false">>}))
          /\ Done("mercadopago.put", u, tenantId)
          /\ UNCHANGED <<users, sessions, payments, orders, ids, inflight>>

(***************************************************************************)
(* POST /auth/public/signup: a new tenant with its admin user.             *)
(***************************************************************************)
\* `${slug}-${Date.now().toString(36)}`
SuffixedSlug(slug) == slug \o "-ts"

Signup(email, businessName) ==
  LET tenantId == generateTenantId
      userId == generateUserId
      base == slugify(businessName)
      slug == IF \E t \in DOMAIN tenants : tenants[t].slug = base
              THEN SuffixedSlug(base) ELSE base
  IN
  IF \E x \in DOMAIN users : users[x].email = email
  THEN /\ resp' = Reply("signup", Null, email, 400, "EMAIL_EXISTS", {})
       /\ UNCHANGED <<db, audit, ids, inflight>>
  ELSE /\ CanCreateTenant
       /\ AuditRoom
       /\ tenants' =
            [ t \in DOMAIN tenants \cup {tenantId} |->
                IF t = tenantId
                THEN [name |-> businessName, slug |-> slug, status |-> "trial",
                      trial_ends_at |-> "set", mercadopago_enabled |-> FALSE,
                      settings |-> "empty"]
                ELSE tenants[t] ]
       /\ users' =
            [ x \in DOMAIN users \cup {userId} |->
                IF x = userId
                THEN [id |-> userId, role |-> "admin", tenant_id |-> tenantId,
                      active |-> TRUE, email |-> email, password_hash |-> "h0"]
                ELSE users[x] ]
       /\ ids' = ids \cup {tenantId, userId}
       /\ audit' = Append(audit,
            [user_id |-> userId, tenant_id |-> tenantId, action |-> "tenant.created",
             resource_type |-> "tenant", resource_id |-> tenantId,
             old_value |-> SqlNull,
             new_value |-> JSONstringify(Obj({<<"businessName", businessName>>,
                                              <<"status", "trial">>})),
             created_at |-> Now(audit)])
       /\ resp' = Reply("signup", Null, email, 201, "OK", {tenantId})
       /\ UNCHANGED <<sessions, payments, orders, inflight>>

(***************************************************************************)
(* Tenant creation and signup statement by statement.  Each awaited        *)
(* statement of a handler is one step; a request between two steps sits in *)
(* inflight with what it has read so far, and the steps of several         *)
(* requests interleave freely.  There is no transaction around the         *)
(* statements of a handler.                                                *)
(***************************************************************************)
MaxInflight == 2

CanStart == Cardinality(inflight) < MaxInflight

CanGenerateIds ==
  /\ Cardinality(ids \cap NewTenantIds) < Len(NewTenantSeq)
  /\ Cardinality(ids \cap NewUserIds) < Len(NewUserSeq)

\* the instants Date.now() may show to two requests
Stamps == {"k1", "k2"}

\* tenants.slug declared without UNIQUE
SlugUniqueNotDeclared(slug) == TRUE

\* slug TEXT UNIQUE NOT NULL: TRUE iff an INSERT of this slug is accepted
SlugUnique(slug) == \A t \in DOMAIN tenants : tenants[t].slug # slug

\* email TEXT UNIQUE NOT NULL on users
EmailUnique(email) == \A x \in DOMAIN users : users[x].email # email

Step(r, pc) == inflight' = (inflight \ {r}) \cup {[r EXCEPT !.pc = pc]}

Finish(r) == inflight' = inflight \ {r}

\* POST /admin/tenants up to the slug lookup
TenantCreateCheck(u, name) ==
  LET user == authMiddleware(u)
      id == generateTenantId
      slug == slugify(name)
  IN
  /\ user # NoUser
  /\ CanStart
  /\ CanGenerateIds
  /\ IF ~requireSuperAdmin(user)
     THEN Forbidden("tenants.create", u, slug)
     ELSE IF \E t \in DOMAIN tenants : tenants[t].slug = slug
     THEN /\ resp' = Reply("tenants.create", u, slug, 400, "Slug already exists", {})
          /\ UNCHANGED <<db, audit, ids, inflight>>
     ELSE /\ inflight' = inflight \cup
                 {[op |-> "tenants.create", user |-> user, tenantId |-> id, userId |-> Null,
                   name |-> name, email |-> Null, slug |-> slug, pc |-> "tenant"]}
          /\ ids' = ids \cup {id}
          /\ resp' = Reply("tenants.create", u, slug, 0, "pending", {})
          /\ UNCHANGED <<db, audit>>

\* POST /admin/tenants from the INSERT on; a refused INSERT throws and
\* app.onError answers
TenantCreateInsert(r) ==
  /\ r.op = "tenants.create"
  /\ r.pc = "tenant"
  /\ Finish(r)
  /\ IF ~SlugUnique(r.slug)
     THEN /\ resp' = onError("tenants.create", r.user.id, r.slug)
          /\ UNCHANGED <<db, audit, ids>>
     ELSE /\ tenants' =
               [ t \in DOMAIN tenants \cup {r.tenantId} |->
                   IF t = r.tenantId
                   THEN [name |-> r.name, slug |-> r.slug, status |-> "trial",
                         trial_ends_at |-> Null, mercadopago_enabled |-> FALSE,
                         settings |-> "default"]
                   ELSE tenants[t] ]
          /\ audit' = createAuditLog(audit, r.user, "tenant.created", "tenant", r.tenantId,
                                     JsonNull, Obj({<<"name", r.name>>}))
          /\ resp' = Reply("tenants.create", r.user.id, r.slug, 201, "OK", {r.tenantId})
          /\ UNCHANGED <<users, sessions, payments, orders, ids>>

\* POST /auth/public/signup: the email lookup, then the ids
SignupCheckEmail(email, businessName) ==
  /\ CanStart
  /\ CanGenerateIds
  /\ IF \E x \in DOMAIN users : users[x].email = email
     THEN /\ resp' = Reply("signup", Null, email, 400, "EMAIL_EXISTS", {})
          /\ UNCHANGED <<db, audit, ids, inflight>>
     ELSE /\ inflight' = inflight \cup
                 {[op |-> "signup", user |-> NoUser, tenantId |-> generateTenantId,
                   userId |-> generateUserId, name |-> businessName, email |-> email,
                   slug |-> slugify(businessName), pc |-> "slug"]}
          /\ ids' = ids \cup {generateTenantId, generateUserId}
          /\ resp' = Reply("signup", Null, email, 0, "pending", {})
          /\ UNCHANGED <<db, audit>>

\* the slug lookup: a taken slug gets the clock appended
SignupCheckSlug(r, stamp) ==
  /\ r.op = "signup"
  /\ r.pc = "slug"
  /\ inflight' = (inflight \ {r}) \cup
       {[r EXCEPT !.pc = "tenant",
                  !.slug = IF \E t \in DOMAIN tenants : tenants[t].slug = r.slug
                           THEN r.slug \o "-" \o stamp ELSE r.slug]}
  /\ resp' = Reply("signup", Null, r.email, 0, "pending", {})
  /\ UNCHANGED <<db, audit, ids>>

\* INSERT INTO tenants, then INSERT INTO locations; a refused INSERT is
\* caught and answered 500
SignupInsertTenant(r) ==
  /\ r.op = "signup"
  /\ r.pc = "tenant"
  /\ IF ~SlugUnique(r.slug)
     THEN /\ Finish(r)
          /\ resp' = Reply("signup", Null, r.email, 500, "INTERNAL_ERROR", {})
          /\ UNCHANGED <<db, audit, ids>>
     ELSE /\ Step(r, "user")
          /\ tenants' =
               [ t \in DOMAIN tenants \cup {r.tenantId} |->
                   IF t = r.tenantId
                   THEN [name |-> r.name, slug |-> r.slug, status |-> "trial",
                         trial_ends_at |-> "set", mercadopago_enabled |-> FALSE,
                         settings |-> "empty"]
                   ELSE tenants[t] ]
          /\ resp' = Reply("signup", Null, r.email, 0, "pending", {})
          /\ UNCHANGED <<users, sessions, payments, orders, audit, ids>>

\* INSERT INTO users, then the subscription, the token, the audit row and
\* the 201; a refused INSERT is caught and answered 500
SignupInsertUser(r) ==
  /\ r.op = "signup"
  /\ r.pc = "user"
  /\ Finish(r)
  /\ IF ~EmailUnique(r.email)
     THEN /\ resp' = Reply("signup", Null, r.email, 500, "INTERNAL_ERROR", {})
          /\ UNCHANGED <<db, audit, ids>>
     ELSE /\ users' =
               [ x \in DOMAIN users \cup {r.userId} |->
                   IF x = r.userId
                   THEN [id |-> r.userId, role |-> "admin", tenant_id |-> r.tenantId,
                         active |-> TRUE, email |-> r.email, password_hash |-> "h0"]
                   ELSE users[x] ]
          /\ audit' = Append(audit,
               [user_id |-> r.userId, tenant_id |-> r.tenantId, action |-> "tenant.created",
                resource_type |-> "tenant", resource_id |-> r.tenantId,
                old_value |-> SqlNull,
                new_value |-> JSONstringify(Obj({<<"businessName", r.name>>,
                                                 <<"status", "trial">>})),
                created_at |-> Now(audit)])
          /\ resp' = Reply("signup", Null, r.email, 201, "OK", {r.tenantId})
          /\ UNCHANGED <<tenants, sessions, payments, orders, ids>>

(***************************************************************************)
(* The refund statement by statement: the SELECT with the status test, the *)
(* UPDATE, the audit INSERT with the answer.  tag tells two requests of    *)
(* the same principal for the same payment apart.                          *)
(***************************************************************************)
FreeTag == CHOOSE n \in 1..(MaxInflight + 1) : \A r \in inflight : r.tag # n

\* POST /admin/payments/:id/refund up to the status test
RefundCheck(u, id) ==
  LET user == authMiddleware(u) IN
  /\ user # NoUser
  /\ CanStart
  /\ IF ~requirePermission(user, "payments:refund")
     THEN Forbidden("payments.refund", u, id)
     ELSE IF id \notin DOMAIN payments
     THEN NotFound("payments.refund", u, id)
     ELSE IF payments[id].status # "approved"
     THEN /\ resp' = Reply("payments.refund", u, id, 400,
                           "Only approved payments can be refunded", {})
          /\ UNCHANGED <<db, audit, ids, inflight>>
     ELSE /\ inflight' = inflight \cup
                 {[op |-> "payments.refund", user |-> user, id |-> id, tag |-> FreeTag,
                   pc |-> "update"]}
          /\ resp' = Reply("payments.refund", u, id, 0, "pending", {})
          /\ UNCHANGED <<db, audit, ids>>

\* UPDATE payments SET status = 'refunded' WHERE id = ?
RefundUpdate(r) ==
  /\ r.op = "payments.refund"
  /\ r.pc = "update"
  /\ Step(r, "audit")
  /\ payments' = [payments EXCEPT ![r.id].status = "refunded"]
  /\ resp' = Reply("payments.refund", r.user.id, r.id, 0, "pending", {})
  /\ UNCHANGED <<tenants, users, sessions, orders, audit, ids>>

\* createAuditLog and the answer
RefundAudit(r) ==
  /\ r.op = "payments.refund"
  /\ r.pc = "audit"
  /\ Finish(r)
  /\ audit' = createAuditLog(audit, r.user, "payment.refunded", "payment", r.id,
                             Obj({<<"status", "approved">>}),
                             Obj({<<"status", "refunded">>, <<"reason", "r">>}))
  /\ resp' = Reply("payments.refund", r.user.id, r.id, 200, "OK", {r.id})
  /\ UNCHANGED <<db, ids>>

(***************************************************************************)
(* POST /webhooks/mercadopago with type = payment.  What MercadoPago       *)
(* answers for the payment id (status, tenant in the metadata) is an       *)
(* input.                                                                  *)
(***************************************************************************)
MpStatuses == {"approved", "in_process", "charged_back"}

statusMap(mp) ==
  CASE mp = "approved" -> "approved"
    [] mp = "pending" -> "pending"
    [] mp = "in_process" -> "pending"
    [] mp = "rejected" -> "rejected"
    [] mp = "cancelled" -> "cancelled"
    [] mp = "refunded" -> "refunded"
    [] mp = "charged_back" -> "refunded"
    [] OTHER -> "pending"

ExternalIds == {"e1", "e3"}

WebhookAudit(paymentId, status) ==
  Append(audit,
    [user_id |-> "system", tenant_id |-> Null, action |-> "payment.webhook",
     resource_type |-> "payment", resource_id |-> paymentId,
     old_value |-> SqlNull,
     new_value |-> JSONstringify(Obj({<<"status", status>>})),
     created_at |-> Now(audit)])

MercadoPagoWebhook(paymentId, mpOk, mpStatus, mpTenant) ==
  LET status == statusMap(mpStatus)
      existing == {p \in DOMAIN payments : payments[p].external_id = paymentId}
  IN
  IF ~mpOk
  THEN /\ resp' = Reply("webhook", Null, paymentId, 500, "Failed to fetch payment details", {})
       /\ UNCHANGED <<db, audit, ids, inflight>>
  ELSE IF existing # {}
  THEN /\ AuditRoom
       /\ payments' = [ p \in DOMAIN payments |->
                          IF p \in existing
                          THEN [payments[p] EXCEPT !.status = status] ELSE payments[p] ]
       /\ audit' = WebhookAudit(paymentId, status)
       /\ resp' = Reply("webhook", Null, paymentId, 200, "OK", existing)
       /\ UNCHANGED <<tenants, users, sessions, orders, ids, inflight>>
  ELSE IF mpTenant \notin DOMAIN tenants
  THEN \* payments.tenant_id REFERENCES tenants(id): the INSERT throws, caught
       /\ resp' = Reply("webhook", Null, paymentId, 500, "Internal error", {})
       /\ UNCHANGED <<db, audit, ids, inflight>>
  ELSE /\ AuditRoom
       /\ payments' =
            [ p \in DOMAIN payments \cup {"p3"} |->
                IF p = "p3"
                THEN [tenant_id |-> mpTenant, status |-> status, external_id |-> paymentId]
                ELSE payments[p] ]
       /\ ids' = ids \cup {"p3"}
       /\ audit' = WebhookAudit(paymentId, status)
       /\ resp' = Reply("webhook", Null, paymentId, 200, "OK", {"p3"})
       /\ UNCHANGED <<tenants, users, sessions, orders, inflight>>

(***************************************************************************)
(* A handler run in which the INSERT INTO audit_logs is refused by the     *)
(* datastore.  The handlers await createAuditLog without a try/catch, so   *)
(* the rejection leaves the handler after its UPDATE has run and ends in   *)
(* app.onError.                                                            *)
(***************************************************************************)
\* PUT /admin/config/:tenantId, the audit INSERT throwing
ConfigPutAuditFails(u, tenantId) ==
  LET user == authMiddleware(u) IN
  /\ user # NoUser
  /\ requirePermission(user, "config:write")
  /\ user.role = "superadmin" \/ tenantId = user.tenant_id
  /\ tenantId \in DOMAIN tenants
  /\ tenants' = [tenants EXCEPT ![tenantId].settings = "custom"]
  /\ resp' = onError("config.put", u, tenantId)
  /\ UNCHANGED <<users, sessions, payments, orders, audit, ids, inflight>>

\* PUT /admin/tenants/:id, the audit INSERT throwing
TenantUpdateAuditFails(u, id, body) ==
  LET user == authMiddleware(u) IN
  /\ user # NoUser
  /\ requireSuperAdmin(user)
  /\ id \in DOMAIN tenants
  /\ body.name # Undefined \/ body.status # Undefined
  /\ tenants' =
       [tenants EXCEPT
          ![id].name = IF body.name # Undefined THEN body.name ELSE @,
          ![id].status = IF body.status # Undefined THEN body.status ELSE @]
  /\ resp' = onError("tenants.update", u, id)
  /\ UNCHANGED <<users, sessions, payments, orders, audit, ids, inflight>>

(***************************************************************************)
(* The audit recorder on its own: a handler behind authMiddleware that     *)
(* hands createAuditLog a before and an after value, and what the audit    *)
(* list makes of a stored snapshot column.                                 *)
(***************************************************************************)
RecorderValues ==
  {JsonNull, Obj({<<"status", "approved">>}), Obj({}), JsonFalse, JsonEmptyString}

\* await createAuditLog(c, action, resourceType, resourceId, oldValue, newValue)
\* (u = Null: a route outside /admin/*, no principal on the request context)
RecorderCall(u, oldValue, newValue) ==
  LET user == IF u = Null THEN NoUser ELSE authMiddleware(u) IN
  /\ u = Null \/ user # NoUser
  /\ user # NoUser => AuditRoom
  /\ audit' = createAuditLog(audit, user, "resource.updated", "resource", "r1",
                             oldValue, newValue)
  /\ resp' = [Reply("audit.record", u, <<oldValue, newValue>>, 200, "OK", {})
               EXCEPT !.order = <<Len(audit')>>]
  /\ UNCHANGED <<db, ids, inflight>>

\* POST /auth/logout: /auth/* is mounted without authMiddleware, so the
\* request context never carries a principal
Logout ==
  LET user == NoUser IN
  /\ audit' = IF user # NoUser
              THEN createAuditLog(audit, user, "user.logout", "user", user.id,
                                  JsonNull, JsonNull)
              ELSE audit
  /\ resp' = Reply("auth.logout", Null, Null, 200, "OK", {})
  /\ UNCHANGED <<db, ids, inflight>>

\* log.oldValue ? JSON.parse(log.oldValue) : null
ParsedSnapshot(col) == IF col # SqlNull THEN JSONparse(col) ELSE JsonNull

(***************************************************************************)
(* The API, one specification per group of routes.                         *)
(***************************************************************************)
Principals == DOMAIN users

TenantParams == TargetTenants \cup {Undefined}

StatusBodies == [name : {Undefined}, status : TenantStatuses]

\* the authorization gate alone
NextGate ==
  \E r \in KnownRoles \cup UnknownRoles, c \in Capabilities : GateCheck(r, c)

SpecGate == Init /\ [][NextGate]_vars

\* the admin gate alone
NextAdminGate ==
  \/ AdminGateCheck
  \/ AdminGateNoUser

SpecAdminGate == InitAdminGate /\ [][NextAdminGate]_vars

\* /admin/tenants, public signup and the payment webhook
NextTenants ==
  \/ \E u \in UserIds \cup NewUserIds : AuthRejected(u)
  \/ \E u \in Principals : TenantsList(u)
  \/ \E u \in Principals, t \in TargetTenants : TenantGet(u, t)
  \/ \E u \in Principals, b \in TenantBodies : TenantCreate(u, b)
  \/ \E u \in Principals, t \in TargetTenants, b \in TenantBodies : TenantUpdate(u, t, b)
  \/ \E u \in Principals, t \in TargetTenants : TenantDelete(u, t)
  \/ \E u \in Principals, t \in TargetTenants : TenantSuspend(u, t)
  \/ \E u \in Principals, t \in TargetTenants : TenantActivate(u, t)
  \/ \E e \in {"new@fixly", "a1@fixly"}, b \in {"Taller Central", "Taller Sur"} : Signup(e, b)
  \/ \E p \in ExternalIds, ok \in BOOLEAN, st \in MpStatuses, t \in {"t1", "unknown"} :
       MercadoPagoWebhook(p, ok, st, t)

SpecTenants == Init /\ [][NextTenants]_vars

\* the lifecycle gate of the app, with the routes that move a tenant's status
NextLifecycle ==
  \/ \E u \in Principals \cup {Null} : LifecycleCheck(u)
  \/ \E u \in Principals, t \in TargetTenants, b \in StatusBodies : TenantUpdate(u, t, b)
  \/ \E u \in Principals, t \in TargetTenants : TenantDelete(u, t)
  \/ \E u \in Principals, t \in TargetTenants : TenantSuspend(u, t)
  \/ \E u \in Principals, t \in TargetTenants : TenantActivate(u, t)

SpecLifecycle == Init /\ [][NextLifecycle]_vars

\* the tenant-scoped list routes, with routes that add and remove rows
NextLists ==
  \/ \E u \in Principals, t \in TenantParams : UsersList(u, t)
  \/ \E u \in Principals, t \in TenantParams : PaymentsList(u, t)
  \/ \E u \in Principals, t \in TenantParams : OrdersList(u, t)
  \/ \E u \in Principals, t \in TenantParams : AuditList(u, t)
  \/ \E u \in Principals, t \in TargetTenants : ConfigPut(u, t)
  \/ \E u \in Principals, t \in TargetTenants : TenantDelete(u, t)
  \/ \E e \in {"new@fixly"}, b \in {"Taller Sur"} : Signup(e, b)
  \/ \E p \in ExternalIds, st \in {"approved"}, t \in {"t1", "unknown"} :
       MercadoPagoWebhook(p, TRUE, st, t)

SpecLists == Init /\ [][NextLists]_vars

\* the audit recorder, the audit list and routes that change what the
\* records describe
NextRecorder ==
  \/ \E u \in Principals \cup {Null}, o \in RecorderValues, n \in RecorderValues :
       RecorderCall(u, o, n)
  \/ Logout
  \/ \E u \in Principals : AuditList(u, Undefined)
  \/ \E u \in Principals, t \in TargetTenants : ConfigPut(u, t)
  \/ \E u \in Principals, t \in TargetTenants : TenantDelete(u, t)

SpecRecorder == Init /\ [][NextRecorder]_vars

\* the three read paths of the audit log, with routes that write records of
\* several tenants
NextAudit ==
  \/ \E u \in Principals, t \in TenantParams : AuditList(u, t)
  \/ \E u \in Principals : AuditExport(u)
  \/ \E u \in Principals : DashboardActivity(u)
  \/ \E u \in Principals : DashboardStats(u)
  \/ \E u \in Principals, t \in TargetTenants : ConfigPut(u, t)
  \/ \E u \in Principals, t \in TargetTenants : TenantDelete(u, t)
  \/ \E e \in {"new@fixly"}, b \in {"Taller Sur"} : Signup(e, b)
  \/ \E p \in ExternalIds, t \in {"t1", "unknown"} :
       MercadoPagoWebhook(p, TRUE, "approved", t)

SpecAudit == Init /\ [][NextAudit]_vars

\* the routes registered behind requireSuperAdmin, as the router runs them,
\* with routes that change the principals and the settings
NextRouting ==
  \/ \E u \in UserIds \cup NewUserIds : AuthRejected(u)
  \/ \E u \in Principals, r \in TenantRoutes : TenantsRouted(u, r)
  \/ \E u \in Principals : ConfigHealth(u)
  \/ \E u \in Principals, t \in TargetTenants \cup {"global"} : ConfigGet(u, t)
  \/ \E u \in Principals, t \in TargetTenants : ConfigPut(u, t)
  \/ \E u \in Principals, x \in DOMAIN users : UserBlock(u, x)

SpecRouting == Init /\ [][NextRouting]_vars

\* /admin/payments and the payment webhook
NextPayments ==
  \/ \E u \in Principals, t \in TenantParams : PaymentsList(u, t)
  \/ \E u \in Principals, p \in DOMAIN payments \cup {"p9"} : PaymentGet(u, p)
  \/ \E u \in Principals, p \in DOMAIN payments \cup {"p9"} : PaymentRefund(u, p)
  \/ \E p \in ExternalIds, ok \in BOOLEAN, st \in MpStatuses, t \in {"t1", "unknown"} :
       MercadoPagoWebhook(p, ok, st, t)

SpecPayments == Init /\ [][NextPayments]_vars

SuspendBodies == [name : {Undefined}, status : {"active", "suspended"}]

\* audited mutations whose audit write may be refused
NextAuditFailure ==
  \/ \E u \in Principals, t \in TargetTenants : ConfigGet(u, t)
  \/ \E u \in Principals, t \in TargetTenants : ConfigPut(u, t)
  \/ \E u \in Principals, t \in TargetTenants : ConfigPutAuditFails(u, t)
  \/ \E u \in Principals, b \in SuspendBodies : TenantUpdate(u, "t1", b)
  \/ \E u \in Principals, b \in SuspendBodies : TenantUpdateAuditFails(u, "t1", b)

SpecAuditFailure == Init /\ [][NextAuditFailure]_vars

\* /admin/users
NextUsers ==
  \/ \E u \in UserIds \cup NewUserIds : AuthRejected(u)
  \/ \E u \in Principals, x \in DOMAIN users : UserGet(u, x)
  \/ \E u \in Principals, x \in DOMAIN users : UserSessions(u, x)
  \/ \E u \in Principals, x \in DOMAIN users, b \in UserBodies : UserUpdate(u, x, b)
  \/ \E u \in Principals, x \in DOMAIN users : UserDelete(u, x)
  \/ \E u \in Principals, x \in DOMAIN users : UserResetPassword(u, x)
  \/ \E u \in Principals, x \in DOMAIN users : UserBlock(u, x)
  \/ \E u \in Principals, x \in DOMAIN users : UserUnblock(u, x)
  \/ \E u \in Principals, s \in sessions : SessionTerminate(u, s.user_id, s.id)

SpecUsers == Init /\ [][NextUsers]_vars

\* the principal resolver, with the routes that block and unblock users
NextAuth ==
  \/ \E t \in Tokens, now \in 1..MaxClock : AuthCheck(t, now)
  \/ \E u \in Principals, x \in DOMAIN users : UserBlock(u, x)
  \/ \E u \in Principals, x \in DOMAIN users : UserUnblock(u, x)

SpecAuth == Init /\ [][NextAuth]_vars

SignupEmails == {"new@fixly", "a1@fixly"}

\* tenant creation and signup with their statements interleaved
NextCreation ==
  \/ \E u \in Principals, n \in BusinessNames : TenantCreateCheck(u, n)
  \/ \E r \in inflight : TenantCreateInsert(r)
  \/ \E e \in SignupEmails, n \in BusinessNames : SignupCheckEmail(e, n)
  \/ \E r \in inflight, k \in Stamps : SignupCheckSlug(r, k)
  \/ \E r \in inflight : SignupInsertTenant(r)
  \/ \E r \in inflight : SignupInsertUser(r)

SpecCreation == Init /\ [][NextCreation]_vars

\* the routes that add users and the routes that add and remove tenants
NextProvision ==
  \/ \E u \in UserIds \cup NewUserIds : AuthRejected(u)
  \/ \E u \in Principals, b \in NewUserBodies : UserCreate(u, b)
  \/ \E u \in Principals, b \in NewUserBodies : UserInvite(u, b)
  \/ \E u \in Principals, x \in DOMAIN users :
       UserUpdate(u, x, [role |-> "operator", active |-> Undefined])
  \/ \E e \in SignupEmails : Signup(e, "Taller Sur")
  \/ \E u \in Principals, t \in TargetTenants : TenantDelete(u, t)

SpecProvision == Init /\ [][NextProvision]_vars

\* refunds with their statements interleaved
NextRefunds ==
  \/ \E u \in UserIds \cup NewUserIds : AuthRejected(u)
  \/ \E u \in Principals, p \in DOMAIN payments \cup {"p9"} : RefundCheck(u, p)
  \/ \E r \in inflight : RefundUpdate(r)
  \/ \E r \in inflight : RefundAudit(r)
  \/ \E u \in Principals, p \in DOMAIN payments : PaymentGet(u, p)
  \/ \E u \in Principals, x \in DOMAIN users : UserBlock(u, x)

SpecRefunds == Init /\ [][NextRefunds]_vars

\* the export routes as the routers dispatch them, with the single-resource
\* routes and the webhook that adds payments
NextExports ==
  \/ \E u \in Principals : PaymentsExport(u)
  \/ \E u \in Principals : OrdersExport(u)
  \/ \E u \in Principals, p \in DOMAIN payments : PaymentGet(u, p)
  \/ \E u \in Principals, o \in DOMAIN orders : OrderGet(u, o)
  \/ \E p \in ExternalIds, t \in {"t1", "unknown"} :
       MercadoPagoWebhook(p, TRUE, "approved", t)

SpecExports == Init /\ [][NextExports]_vars

\* /admin/payments, /admin/operations, /admin/config
NextConfig ==
  \/ \E u \in Principals, p \in DOMAIN payments : PaymentGet(u, p)
  \/ \E u \in Principals, o \in DOMAIN orders : OrderGet(u, o)
  \/ \E u \in Principals, p \in DOMAIN payments : PaymentRefund(u, p)
  \/ \E u \in Principals, t \in TargetTenants \cup {"global"} : ConfigGet(u, t)
  \/ \E u \in Principals, t \in TargetTenants : ConfigPut(u, t)
  \/ \E u \in Principals, t \in TargetTenants : MercadoPagoGet(u, t)
  \/ \E u \in Principals, t \in TargetTenants, e \in BOOLEAN : MercadoPagoPut(u, t, e)

SpecConfig == Init /\ [][NextConfig]_vars

(***************************************************************************)
(* Properties.                                                             *)
(***************************************************************************)

ListOps == {"users.list", "payments.list", "orders.list", "audit.list"}

\* C2: a principal that is not a superadmin and asks a list route for a
\* tenant other than its own is answered Forbidden (never a list narrowed to
\* its own tenant).
C2_MismatchForbidden ==
  ( /\ resp.op \in ListOps
    /\ resp.uid \in DOMAIN users
    /\ users[resp.uid].role # "superadmin"
    /\ resp.req # Undefined
    /\ resp.req # users[resp.uid].tenant_id )
  => resp.status = 403

\* the rows of a list route's table that belong to tenant t
RowsOfTenant(op, t) ==
  CASE op = "users.list" -> {x \in DOMAIN users : users[x].tenant_id = t}
    [] op = "payments.list" -> {x \in DOMAIN payments : payments[x].tenant_id = t}
    [] op = "orders.list" -> {x \in DOMAIN orders : orders[x].tenant_id = t}
    [] op = "audit.list" -> {i \in 1..Len(audit) : audit[i].tenant_id = t}

\* C3: a superadmin that asks a list route (users, payments, orders, audit)
\* for tenant T gets exactly the rows of T: every row sent back belongs to T
\* and no row of T is left out.
C3_SuperadminScopedExactly ==
  ( /\ resp.op \in ListOps
    /\ resp.uid \in DOMAIN users
    /\ users[resp.uid].role = "superadmin"
    /\ resp.req # Undefined )
  => /\ resp.status = 200
     /\ resp.rows = RowsOfTenant(resp.op, resp.req)

\* a superadmin asked for the users of one tenant and got some, not all, users
C3_SuperadminNarrowedList ==
  /\ resp.op = "users.list"
  /\ resp.uid \in DOMAIN users
  /\ users[resp.uid].role = "superadmin"
  /\ resp.req \in DOMAIN tenants
  /\ resp.rows # {}
  /\ resp.rows # DOMAIN users

\* C4: a request of a principal that is not a superadmin neither modifies nor
\* returns a user or session row of a tenant other than the principal's own.
C4_NoCrossTenantAccess ==
  [][ LET p == resp'.uid IN
      ( /\ resp'.op # "any"
        /\ p \in DOMAIN users
        /\ users[p].role # "superadmin" )
      => /\ \A x \in DOMAIN users :
              (x \notin DOMAIN users' \/ users'[x] # users[x])
                => users[x].tenant_id = users[p].tenant_id
         /\ \A x \in sessions \ sessions' :
              users[x.user_id].tenant_id = users[p].tenant_id
         /\ resp'.op = "users.get" =>
              \A x \in resp'.rows : users[x].tenant_id = users[p].tenant_id
         /\ resp'.op = "users.sessions" =>
              \A x \in sessions :
                x.id \in resp'.rows => users[x.user_id].tenant_id = users[p].tenant_id
    ]_vars

\* what the lifecycle gate answers when it calls next()
Passed == resp.status = 200 /\ resp.code = "OK"

\* C5: the lifecycle gate lets a superadmin and a principal without tenant
\* through; for any other principal it answers TENANT_SUSPENDED with the
\* tenant's id and name when the tenant is suspended, TENANT_CANCELLED with
\* the tenant's id when it is cancelled, and lets trial and active through.
C5_LifecycleDecision ==
  (resp.op = "lifecycle" /\ resp.uid # Null) =>
    LET p == users[resp.uid] IN
    IF p.role = "superadmin" \/ p.tenant_id = Null THEN Passed
    ELSE LET t == tenants[p.tenant_id] IN
         CASE t.status = "suspended" ->
                /\ resp.status = 403
                /\ resp.code = "TENANT_SUSPENDED"
                /\ resp.tenantId = p.tenant_id
                /\ resp.tenantName = t.name
           [] t.status = "cancelled" ->
                /\ resp.status = 403
                /\ resp.code = "TENANT_CANCELLED"
                /\ resp.tenantId = p.tenant_id
           [] t.status \in {"trial", "active"} -> Passed

\* a principal of a cancelled tenant was turned away
C5_CancelledRejected ==
  /\ resp.op = "lifecycle"
  /\ resp.uid \in DOMAIN users
  /\ users[resp.uid].tenant_id \in DOMAIN tenants
  /\ tenants[users[resp.uid].tenant_id].status = "cancelled"
  /\ resp.code = "TENANT_CANCELLED"

AllowedTransitions ==
  { <<"trial", "active">>, <<"active", "suspended">>, <<"suspended", "active">> }
  \cup { <<s, "cancelled">> : s \in TenantStatuses }

ReadOps ==
  {"users.list", "users.get", "users.sessions", "payments.list", "payments.get",
   "orders.list", "orders.get", "audit.list", "tenants.list", "tenants.get",
   "config.get", "mercadopago.get"}

\* C10: every operation that changes stored data appends one audit record,
\* and an operation that only reads appends none.
C10_AuditOnEveryMutation ==
  [][ /\ db' # db => Len(audit') = Len(audit) + 1
      /\ resp'.op \in ReadOps => audit' = audit
    ]_vars

\* C11: an unfiltered audit query returns the records in write order: of two
\* records the one written first comes first.
C11_ReturnedInWriteOrder ==
  (resp.op = "audit.list" /\ resp.status = 200 /\ resp.req = Undefined) =>
    \A i, j \in 1..Len(resp.order) :
      i < j => audit[resp.order[i]].created_at < audit[resp.order[j]].created_at

AuditReadOps == {"audit.list", "audit.export", "dashboard.activity"}

\* C14: every audit record that the audit list, the audit export or the
\* dashboard activity sends to a principal that is not a superadmin carries
\* the principal's own tenant or no tenant at all.
C14_AuditReadIsolation ==
  ( /\ resp.op \in AuditReadOps
    /\ resp.status = 200
    /\ users[resp.uid].role # "superadmin" )
  => \A i \in resp.rows :
       audit[i].tenant_id = users[resp.uid].tenant_id \/ audit[i].tenant_id = Null

\* a tenant's admin asked for another tenant's audit records and got its own
\* tenant's record while a record of a third tenant stayed out of the answer
C14_ForeignRecordWithheld ==
  /\ resp.op = "audit.list"
  /\ resp.status = 200
  /\ resp.req \notin {Undefined, users[resp.uid].tenant_id}
  /\ users[resp.uid].role # "superadmin"
  /\ \E i \in resp.rows : audit[i].tenant_id = users[resp.uid].tenant_id
  /\ \E i \in 1..Len(audit) : i \notin resp.rows /\ audit[i].tenant_id # Null

\* C15: a call of the recorder, or a logout, on a request without principal
\* still appends one record, attributed to the system actor.
C15_SystemActorRecorded ==
  [][ (resp'.op \in {"audit.record", "auth.logout"} /\ resp'.uid = Null) =>
        /\ Len(audit') = Len(audit) + 1
        /\ audit'[Len(audit')].user_id = "system"
    ]_vars

\* C16: when the audit write of an operation fails after its mutation was
\* applied (stored data changed, no audit record appended), the caller still
\* gets the operation's success response.
C16_AuditFailureNotReported ==
  [][ ( /\ resp'.op \in {"config.put", "tenants.update"}
        /\ db' # db
        /\ audit' = audit )
      => resp'.status = 200
    ]_vars

\* C17: a refund by a principal holding payments:refund on an approved
\* payment sets it to refunded and appends exactly one audit record
\* payment.refunded with before {status: approved} and after {status:
\* refunded, reason}; a refund on a payment in another status is rejected and
\* changes neither the payments nor the audit log.
C17_RefundContract ==
  [][ resp'.op = "payments.refund" =>
        LET id == resp'.req
            holder == requirePermission(users[resp'.uid], "payments:refund")
        IN
        /\ (holder /\ id \in DOMAIN payments /\ payments[id].status = "approved") =>
             /\ resp'.status = 200
             /\ payments' = [payments EXCEPT ![id].status = "refunded"]
             /\ Len(audit') = Len(audit) + 1
             /\ SubSeq(audit', 1, Len(audit)) = audit
             /\ LET w == audit'[Len(audit')] IN
                /\ w.action = "payment.refunded"
                /\ w.resource_id = id
                /\ ParsedSnapshot(w.old_value) = Obj({<<"status", "approved">>})
                /\ ParsedSnapshot(w.new_value) =
                     Obj({<<"status", "refunded">>, <<"reason", "r">>})
        /\ (id \in DOMAIN payments /\ payments[id].status # "approved") =>
             /\ resp'.status \in {400, 403}
             /\ payments' = payments
             /\ audit' = audit
        /\ resp'.status = 200 => (holder /\ id \in DOMAIN payments)
    ]_vars

\* an approved payment was refunded and the refund is the last audit record
C17_Refunded ==
  /\ resp.op = "payments.refund"
  /\ resp.status = 200
  /\ payments[resp.req].status = "refunded"
  /\ Len(audit) > 0
  /\ audit[Len(audit)].action = "payment.refunded"

\* C18: a request to a route under /admin/tenants or to /admin/config/health
\* reaches the route's handler and gets its result iff the principal is a
\* superadmin; any other principal gets 403.
C18_SuperAdminRoutes ==
  resp.op \in {"tenants.routed", "config.health"} =>
    IF users[resp.uid].role = "superadmin"
    THEN resp.status = 200 /\ resp.code = "OK"
    ELSE resp.status = 403

\* two characters that are the same letter, whatever their case
SameLetter(c, d) == c = d \/ {c, d} \in {{"a", "A"}, {"b", "B"}}

EqualIgnoringCase(s, t) ==
  /\ Len(s) = Len(t)
  /\ \A i \in 1..Len(s) : SameLetter(s[i], t[i])

\* a bootstrap email is configured: the variable is set to a non-empty string
Configured(b) == b # Unset /\ b # <<>>

\* C19: requireAdmin lets a principal through iff its role is superadmin or
\* admin, or a bootstrap email is configured and equals the principal's email
\* ignoring letter case; everybody else gets 403.  In particular, without a
\* configured bootstrap email an operator or viewer is rejected.
C19_AdminGateIff ==
  (resp.op = "admin.gate" /\ resp.uid # Null) =>
    LET b == resp.req.bootstrapEmail
        allowed == \/ resp.uid \in {"superadmin", "admin"}
                   \/ Configured(b) /\ EqualIgnoringCase(resp.req.email, b)
    IN  /\ (resp.status = 200 /\ resp.code = "handler") <=> allowed
        /\ ~allowed => resp.status = 403
        /\ (~Configured(b) /\ resp.uid \in {"operator", "viewer"}) => resp.status = 403

\* an operator whose email differs from the bootstrap email only in letter
\* case went through the gate
C19_OperatorBootstrapped ==
  /\ resp.op = "admin.gate"
  /\ resp.uid = "operator"
  /\ resp.req.email = <<"A", "b">>
  /\ resp.req.bootstrapEmail = <<"a", "B">>
  /\ resp.status = 200

\* C20: once a user with role superadmin exists, an operator or viewer is
\* rejected by the admin gate even if its email equals the bootstrap email.
C20_BootstrapIgnoredWithSuperadmin ==
  ( /\ resp.op = "admin.gate"
    /\ resp.uid \in {"operator", "viewer"}
    /\ \E x \in DOMAIN users : users[x].role = "superadmin" )
  => resp.status = 403

\* the token is well-formed: a Bearer header, three parts, a JSON payload
WellFormed(token) == token.bearer /\ token.parts = 3 /\ token.json

\* the token carries no expiration, or one that has not passed at now
Unexpired(token, now) == token.exp = <<>> \/ now < token.exp[1]

\* C21: the principal resolver lets a request through, with the principal
\* attached, iff the credential is well-formed, is unexpired and its subject
\* is an active user; otherwise it answers 401.
C21_ResolverIff ==
  resp.op = "auth" =>
    LET token == resp.req.token
        ok == /\ WellFormed(token)
              /\ Unexpired(token, resp.req.now)
              /\ token.sub \in DOMAIN users
              /\ users[token.sub].active
    IN  /\ (resp.status = 200 /\ resp.rows = {token.sub}) <=> ok
        /\ ~ok => resp.status = 401

\* C22: no two tenants have the same slug, whatever the interleaving of the
\* slug lookups and inserts of tenant creations and signups.
C22_SlugUnique ==
  \A t1, t2 \in DOMAIN tenants : t1 # t2 => tenants[t1].slug # tenants[t2].slug

\* a creation that passed its slug lookup had its INSERT refused because
\* another request stored the slug in between
C22_RacingInsertRefused ==
  /\ resp.op = "tenants.create"
  /\ resp.status = 500
  /\ \E t \in DOMAIN tenants \ SeedTenantIds : tenants[t].slug = resp.req

\* C23: a user's tenant affiliation is null only if the user is a
\* superadmin, and a non-null affiliation is the id of an existing tenant.
C23_AffiliationValid ==
  \A x \in DOMAIN users :
    /\ users[x].tenant_id = Null => users[x].role = "superadmin"
    /\ users[x].tenant_id # Null => users[x].tenant_id \in DOMAIN tenants

SuperAdmins(tbl) == {x \in DOMAIN tbl : tbl[x].role = "superadmin"}

\* C25: a user-management request (create, invite, update) of a principal
\* that is not a superadmin leaves the set of superadmin users as it was.
C25_NoSuperadminFromBelow ==
  [][ ( /\ resp'.op \in {"users.create", "users.invite", "users.update"}
        /\ resp'.uid \in DOMAIN users
        /\ users[resp'.uid].role # "superadmin" )
      => SuperAdmins(users') = SuperAdmins(users)
    ]_vars

\* C24: a principal whose role lacks audit:read receives no audit record
\* from any route: not from the audit list or export, and not from the
\* dashboard statistics or the dashboard activity.
C24_AuditNeedsCapability ==
  ( /\ resp.op \in {"audit.list", "audit.export", "dashboard.activity", "dashboard.stats"}
    /\ resp.uid \in DOMAIN users
    /\ "audit:read" \notin rolePermissions[users[resp.uid].role] )
  => resp.rows = {}

\* a config.updated record written by a principal that is not a superadmin
\* was written with the tenant it names in resource_id: the route lets such
\* a principal change the settings of its own tenant only
WrittenByTenantPrincipal(row) ==
  /\ row.action = "config.updated"
  /\ row.user_id \in DOMAIN users
  /\ users[row.user_id].role # "superadmin"

SnapshotKeys(col) == { kv[1] : kv \in col.fields }

\* C27: no audit record written by user update or user delete holds a
\* password hash in its before or after snapshot.
C27_NoHashInAudit ==
  \A i \in 1..Len(audit) :
    audit[i].action \in {"user.updated", "user.deleted"} =>
      "password_hash" \notin SnapshotKeys(audit[i].old_value) \cup SnapshotKeys(audit[i].new_value)

RefundRecords(p) ==
  {i \in 1..Len(audit) : audit[i].action = "payment.refunded" /\ audit[i].resource_id = p}

\* C28: whatever the interleaving of refund requests for one payment, at
\* most one payment.refunded audit record exists for it.
C28_OneRefundPerPayment ==
  \A p \in DOMAIN payments : Cardinality(RefundRecords(p)) <= 1

\* the tenants stored by signup (it stores settings '{}') whose request has
\* been answered
SignedUp ==
  {t \in DOMAIN tenants :
     /\ tenants[t].settings = "empty"
     /\ \A r \in inflight : r.tenantId # t}

\* C29: once a signup request is answered, whether it succeeded or failed,
\* every tenant that signup stored has an admin user affiliated with it.
C29_SignupTenantHasAdmin ==
  \A t \in SignedUp :
    \E x \in DOMAIN users : users[x].tenant_id = t /\ users[x].role = "admin"

\* the rows of a table that an export sends to a principal
ExportRows(tbl, user) ==
  {x \in DOMAIN tbl : user.role = "superadmin" \/ SqlEq(tbl[x].tenant_id, user.tenant_id)}

\* C30: a GET of /admin/payments/export or /admin/operations/orders/export
\* by a principal holding operations:export is answered by the export
\* handler with the tenant-scoped rows.
C30_ExportReachable ==
  ( /\ resp.op \in {"payments.export", "orders.export"}
    /\ "operations:export" \in rolePermissions[users[resp.uid].role] )
  => /\ resp.status = 200
     /\ resp.rows = ExportRows(IF resp.op = "payments.export" THEN payments ELSE orders,
                               users[resp.uid])

====
